---- MODULE Spec2Model ----
(***************************************************************************)
(* Model of the lgres archive reader (Reader), the convenience writer      *)
(* (Write) and the layered block view (resourceListMerger) of              *)
(* inkyblackness/hacked.                                                   *)
(*                                                                         *)
(* Six specifications share the variables:                                 *)
(*   SpecMerge  the merged view's Block over a stack of layers             *)
(*   SpecFind   Reader.findEntry over directories and first offsets        *)
(*   Spec       ReaderFrom and Reader.Resource                             *)
(*   SpecBlock  the same, with Block on the resources returned             *)
(*   SpecTable  the same, over compound resources' stored block tables     *)
(*   SpecWrite  Write(target, provider)                                    *)
(* Errors are strings ("nil" is the nil error); a nil pointer is 0.        *)
(***************************************************************************)
EXTENDS Integers, Sequences, FiniteSets, TLC

VARIABLES
    layers,      \* resourceListMerger.list: the layers, lowest priority first
    merged,      \* the last merged Block call and what it returned
    source,      \* the io.ReaderAt handed to ReaderFrom
    reader,      \* the *Reader ReaderFrom returned (or the nil reader)
    readerErr,   \* the error ReaderFrom returned
    reads,       \* the regions of the source ReaderFrom has read
    resources,   \* the *resource.Resource instances created, by address 1..n
    decodes,     \* per id: how often Resource went past the cache
    lastCall,    \* the last Resource call and what it returned
    lastBlock,   \* the last Block call on a resource and what it returned
    found,       \* the last findEntry call and what it returned
    provider,    \* the resource.Provider handed to Write
    target,      \* the target handed to Write: which call on its writer fails
    wpc,         \* Write's position: "idle", "loop", "done"
    widx,        \* Write's position in source.IDs()
    wlog,        \* the calls Write made on the writer, in order
    werr         \* the error Write returned

mergeVars == <<layers, merged>>
readerVars == <<source, reader, readerErr, reads, resources, decodes, lastCall, lastBlock>>
findVars == <<found>>
writeVars == <<provider, target, wpc, widx, wlog, werr>>
vars == <<mergeVars, readerVars, findVars, writeVars>>

\* ------------------------------------------------------------- bounds
MaxLayers == 3
MaxBlocks == 1
MaxFindDir == 3
MaxDirectory == 2
MaxDecodes == 2
MaxDecompressors == 2
MaxProviderIDs == 2
MaxTableBlocks == 2
MaxProviderBlocks == 2
\* uint32 is modelled WordBits wide, so that its wrap-around is within reach.
WordBits == 16

\* ------------------------------------------------------ byte streams
\* An io.Reader over a block: its bytes and the read position. NoStream is the
\* nil io.Reader.
NoStream == [open |-> FALSE, data |-> <<>>, pos |-> 0]

NewStream(data) == [open |-> TRUE, data |-> data, pos |-> 0]

\* Read(buf[:]) with a one-byte buffer: the count read and the stream after it.
ReadByte(stream) ==
    IF stream.pos < Len(stream.data)
    THEN [read |-> 1, stream |-> [stream EXCEPT !.pos = @ + 1]]
    ELSE [read |-> 0, stream |-> stream]

\* What is left to read of a stream.
Remaining(stream) == SubSeq(stream.data, stream.pos + 1, Len(stream.data))

\* ------------------------------------------------------------ layers
\* A layer's block: its Block call fails, or yields these bytes.
FailingBlock == [fails |-> TRUE, data |-> <<>>]

DataBlock(data) == [fails |-> FALSE, data |-> data]

BlockValues == {FailingBlock, DataBlock(<<>>), DataBlock(<<0, 1>>), DataBlock(<<9, 1>>)}

SeqsUpTo(S, n) == UNION {[1..k -> S] : k \in 0..n}

Layers == SeqsUpTo(BlockValues, MaxBlocks)

LayerStacks == SeqsUpTo(Layers, MaxLayers)

\* view.list[layer].Block(index): 0-based index into the layer's blocks.
LayerBlock(layer, index) ==
    IF index < 0 \/ index >= Len(layer)
    THEN [reader |-> NoStream, err |-> "blockIndexWrong"]
    ELSE IF layer[index + 1].fails
    THEN [reader |-> NoStream, err |-> "blockFailed"]
    ELSE [reader |-> NewStream(layer[index + 1].data), err |-> "nil"]

\* ------------------------------------------------- resourceListMerger
NoResult == [reader |-> NoStream, err |-> "nil", layer |-> 0]

\* The loop of resourceListMerger.Block: layers from last to first while the
\* reader is nil; layer is the 1-based index of the layer the reader is of.
RECURSIVE scanLayers(_, _, _, _)
scanLayers(list, index, layer, acc) ==
    IF layer < 1 \/ acc.reader.open
    THEN acc
    ELSE LET temp == LayerBlock(list[layer], index)
             again == LayerBlock(list[layer], index)
         IN  IF temp.err = "nil" /\ ReadByte(temp.reader).read = 1
             THEN scanLayers(list, index, layer - 1,
                             [reader |-> again.reader, err |-> again.err, layer |-> layer])
             ELSE scanLayers(list, index, layer - 1, acc)

\* Mutant: the peeked reader is returned instead of a re-opened one.
RECURSIVE scanLayersPeeked(_, _, _, _)
scanLayersPeeked(list, index, layer, acc) ==
    IF layer < 1 \/ acc.reader.open
    THEN acc
    ELSE LET temp == LayerBlock(list[layer], index)
         IN  IF temp.err = "nil" /\ ReadByte(temp.reader).read = 1
             THEN scanLayersPeeked(list, index, layer - 1,
                      [reader |-> ReadByte(temp.reader).stream, err |-> "nil", layer |-> layer])
             ELSE scanLayersPeeked(list, index, layer - 1, acc)

mergerBlockPeeked(list, index) == scanLayersPeeked(list, index, Len(list), NoResult)

\* Mutant: a failing layer's error is handed on.
RECURSIVE scanLayersErr(_, _, _, _)
scanLayersErr(list, index, layer, acc) ==
    IF layer < 1 \/ acc.reader.open
    THEN acc
    ELSE LET temp == LayerBlock(list[layer], index)
         IN  IF temp.err = "nil" /\ ReadByte(temp.reader).read = 1
             THEN scanLayersErr(list, index, layer - 1,
                      [reader |-> temp.reader, err |-> "nil", layer |-> layer])
             ELSE scanLayersErr(list, index, layer - 1,
                      [acc EXCEPT !.err = IF temp.err = "nil" THEN acc.err ELSE temp.err])

mergerBlockErr(list, index) == scanLayersErr(list, index, Len(list), NoResult)

\* resourceListMerger.Block(index)
mergerBlock(list, index) == scanLayers(list, index, Len(list), NoResult)

\* resourceListMerger.BlockCount()
mergerBlockCount(list) ==
    LET counts == {Len(list[i]) : i \in 1..Len(list)} \cup {0}
    IN  CHOOSE m \in counts : \A c \in counts : c <= m

NoMerged == [called |-> FALSE, index |-> 0, reader |-> NoStream, err |-> "nil", layer |-> 0]

\* ------------------------------------------------------ archive format
Uint32Modulus == 2 ^ WordBits

\* A sum or difference as a uint32 holds it.
Uint32(n) == n % Uint32Modulus

\* The alignment of the resources in the archive.
boundarySize == 4

resourceTypeFlagCompressed == 1

resourceTypeFlagCompound == 2

\* Whether the flag's bit is set in resourceType (the flags are powers of two).
HasFlag(resourceType, flag) == (resourceType \div flag) % 2 = 1

\* The content of a compound resource's window: the block table as stored (the
\* block count, firstBlockOffset, one cumulative end offset per block) and
\* whether the payload is a stream the decompressor accepts, yielding
\* decompressedSize bytes.
NoContent == [blockCount |-> 0, firstBlockOffset |-> 0, ends |-> <<>>, validStream |-> TRUE,
              decompressedSize |-> 0]

\* A resourceDirectoryEntry, with what its window of the source holds.
DirectoryEntry(id, resourceType, contentType, packedLength, unpackedLength, content) ==
    [ID |-> id, resourceType |-> resourceType, contentType |-> contentType,
     packedLength |-> packedLength, unpackedLength |-> unpackedLength,
     content |-> content]

\* A Reader as ReaderFrom builds it; the cache maps ids to resource addresses.
NewReader(src, firstResourceOffset, directory) ==
    [nil |-> FALSE, source |-> src, firstResourceOffset |-> firstResourceOffset,
     directory |-> directory, cache |-> <<>>]

NilReader == [nil |-> TRUE]

\* Mutant: the running offset is not padded to the boundary.
RECURSIVE findEntryUnpadded(_, _, _, _)
findEntryUnpadded(directory, id, index, startOffset) ==
    IF index > Len(directory)
    THEN [startOffset |-> startOffset, entry |-> 0]
    ELSE IF directory[index].ID = id
    THEN [startOffset |-> startOffset, entry |-> index]
    ELSE findEntryUnpadded(directory, id, index + 1,
             Uint32(startOffset + directory[index].packedLength))

\* Mutant: the scan does not stop at the first match, the last one wins.
RECURSIVE findEntryLast(_, _, _, _)
findEntryLast(directory, id, index, startOffset) ==
    LET matches == {i \in 1..Len(directory) : directory[i].ID = id}
        last == IF matches = {} THEN 0 ELSE CHOOSE i \in matches : \A k \in matches : k <= i
    IN  IF index > Len(directory)
        THEN [startOffset |-> startOffset, entry |-> 0]
        ELSE IF index = last
        THEN [startOffset |-> startOffset, entry |-> index]
        ELSE LET advanced == Uint32(startOffset + directory[index].packedLength)
             IN  findEntryLast(directory, id, index + 1,
                     Uint32(advanced + ((boundarySize - (advanced % boundarySize)) % boundarySize)))

\* The loop of Reader.findEntry from directory[index] on (1-based); entry is the
\* index of the entry found, 0 for the nil entry.
RECURSIVE findEntryFrom(_, _, _, _)
findEntryFrom(directory, id, index, startOffset) ==
    IF index > Len(directory)
    THEN [startOffset |-> startOffset, entry |-> 0]
    ELSE IF directory[index].ID = id
    THEN [startOffset |-> startOffset, entry |-> index]
    ELSE LET advanced == Uint32(startOffset + directory[index].packedLength)
         IN  findEntryFrom(directory, id, index + 1,
                 Uint32(advanced + ((boundarySize - (advanced % boundarySize)) % boundarySize)))

findEntryNoPadding(rd, id) == findEntryUnpadded(rd.directory, id, 1, rd.firstResourceOffset)

findEntryLastMatch(rd, id) == findEntryLast(rd.directory, id, 1, rd.firstResourceOffset)

\* Reader.findEntry(id)
findEntry(rd, id) == findEntryFrom(rd.directory, id, 1, rd.firstResourceOffset)

\* ---------------------------------------------------------- the source
\* The position of the directory offset in the file header.
resourceDirectoryFileOffsetPos == 124

\* binary.Size of the uint32 directory offset.
dirOffsetSize == 4

\* binary.Size(&resourceDirectoryHeader): a uint16 count and a uint32 offset.
dirHeaderSize == 6

\* binary.Size of one resourceDirectoryEntry.
dirEntrySize == 10

headerString == "LG Res File v2"

commentTerminator == 26

errSourceNil == "errSourceNil"

errFormatMismatch == "errFormatMismatch"

\* A source of size bytes: the header string and the terminator byte it starts
\* with, the directory offset stored in its header, and the directory header and
\* entries stored at that offset (as far as size reaches).
Source(size, magic, terminator, dirOffset, firstResourceOffset, directory) ==
    [given |-> TRUE, nil |-> FALSE, size |-> size, magic |-> magic, terminator |-> terminator,
     dirOffset |-> dirOffset, firstResourceOffset |-> firstResourceOffset,
     directory |-> directory]

NilSource == [given |-> TRUE, nil |-> TRUE]

NoSource == [given |-> FALSE, nil |-> TRUE]

\* The first error of a serial decoder that is to decode need bytes of a reader
\* that yields avail: a read that comes short fails and leaves its target zero.
decodeError(avail, need) == IF avail < need THEN "EOF" ELSE "nil"

\* readAndVerifyHeader on the section [0, resourceDirectoryFileOffsetPos+4): a
\* read that comes short leaves its target zero and sets the coder's first error.
readAndVerifyHeader(src) ==
    LET dataRead == decodeError(src.size, resourceDirectoryFileOffsetPos) = "nil"
        offsetRead == decodeError(src.size, resourceDirectoryFileOffsetPos + dirOffsetSize) = "nil"
        magic == IF dataRead THEN src.magic ELSE ""
        terminator == IF dataRead THEN src.terminator ELSE 0
    IN  IF magic # headerString \/ terminator # commentTerminator
        THEN [dirOffset |-> 0, err |-> errFormatMismatch]
        ELSE [dirOffset |-> IF offsetRead THEN src.dirOffset ELSE 0,
              err |-> IF offsetRead THEN "nil" ELSE "EOF"]

\* Mutant: the error of reading the entries is dropped.
readDirectoryAtUnchecked(dirOffset, src) ==
    IF decodeError(src.size - dirOffset, dirHeaderSize) # "nil"
    THEN [firstResourceOffset |-> 0, directory |-> <<>>, err |-> "EOF"]
    ELSE [firstResourceOffset |-> src.firstResourceOffset, directory |-> src.directory,
          err |-> "nil"]

\* readDirectoryAt(dirOffset, source): the header, then ResourceCount entries.
readDirectoryAt(dirOffset, src) ==
    IF decodeError(src.size - dirOffset, dirHeaderSize) # "nil"
    THEN [firstResourceOffset |-> 0, directory |-> <<>>, err |-> "EOF"]
    ELSE LET count == Len(src.directory)
         IN  [firstResourceOffset |-> src.firstResourceOffset,
              directory |-> src.directory,
              err |-> IF count > 0
                      THEN decodeError(src.size - (dirOffset + dirHeaderSize), dirEntrySize * count)
                      ELSE "nil"]

\* ReaderFrom(source): the reader, the error and the regions read.
ReaderFrom(src) ==
    IF src.nil
    THEN [reader |-> NilReader, err |-> errSourceNil, reads |-> <<>>]
    ELSE LET header == readAndVerifyHeader(src)
             dir == readDirectoryAt(header.dirOffset, src)
         IN  IF header.err # "nil"
             THEN [reader |-> NilReader, err |-> header.err, reads |-> <<"header">>]
             ELSE IF dir.err # "nil"
             THEN [reader |-> NilReader, err |-> dir.err, reads |-> <<"header", "directory">>]
             ELSE [reader |-> NewReader(src, dir.firstResourceOffset, dir.directory),
                   err |-> "nil", reads |-> <<"header", "directory">>]

\* Reader.IDs()
readerIDs(rd) == [index \in 1..Len(rd.directory) |-> rd.directory[index].ID]

\* ------------------------------------------------------ resource codec
Min(a, b) == IF a < b THEN a ELSE b

Max(a, b) == IF a < b THEN b ELSE a

\* The bytes an io.SectionReader over [start, start+length) of the source yields.
SectionSize(src, start, length) == Min(length, Max(0, src.size - start))

\* Mutant: lastBlockEndOffset is not advanced, every block starts at
\* firstBlockOffset.
readBlockListUnchained(content, avail) ==
    LET tableSize == 2 + 4 + 4 * content.blockCount
        complete == decodeError(avail, 2) = "nil" /\ decodeError(avail, tableSize) = "nil"
    IN  [firstBlockOffset |-> IF decodeError(avail, 2 + 4) = "nil" THEN content.firstBlockOffset ELSE 0,
         blockList |-> IF complete
                       THEN [i \in 1..content.blockCount |->
                                [start |-> content.firstBlockOffset,
                                 size |-> Uint32(content.ends[i] - content.firstBlockOffset)]]
                       ELSE <<>>,
         err |-> IF complete THEN "nil" ELSE "EOF"]

\* Reader.readBlockList on a window of avail bytes holding content: the block
\* count, the first block's offset, then one end offset per block; each block
\* starts where the one before it ended. The block list is left empty when the
\* window ends before the table does (the caller discards it with the error).
readBlockList(content, avail) ==
    LET tableSize == 2 + 4 + 4 * content.blockCount
        complete == decodeError(avail, 2) = "nil" /\ decodeError(avail, tableSize) = "nil"
        lastBlockEndOffset(i) == IF i = 1 THEN content.firstBlockOffset ELSE content.ends[i - 1]
    IN  [firstBlockOffset |-> IF decodeError(avail, 2 + 4) = "nil" THEN content.firstBlockOffset ELSE 0,
         blockList |-> IF complete
                       THEN [i \in 1..content.blockCount |->
                                [start |-> lastBlockEndOffset(i),
                                 size |-> Uint32(content.ends[i] - lastBlockEndOffset(i))]]
                       ELSE <<>>,
         err |-> IF complete THEN "nil" ELSE "EOF"]

\* A *resource.Resource with the state its blockFunc closes over: uncompressed
\* says that uncompressedReader is set, decompressors counts the decompressors
\* the resource has created. entry is the index of the directory entry it is of,
\* rawSize the bytes rawBlockDataReader yields and decompressedSize the bytes
\* a decompressor yields from them.
NewResource(compound, contentType, compressed, blockCount, fields) ==
    [Compound |-> compound, ContentType |-> contentType, Compressed |-> compressed,
     blockCount |-> blockCount, entry |-> fields.entry, startOffset |-> fields.startOffset,
     packedLength |-> fields.packedLength, unpackedLength |-> fields.unpackedLength,
     validStream |-> fields.validStream,
     rawSize |-> fields.rawSize, decompressedSize |-> fields.decompressedSize,
     firstBlockOffset |-> fields.firstBlockOffset, blockList |-> fields.blockList,
     uncompressed |-> compound /\ ~compressed, decompressors |-> 0]

\* Reader.newCompoundResourceReader
newCompoundResourceReader(rd, entryIndex, contentType, compressed, resourceStartOffset) ==
    LET entry == rd.directory[entryIndex]
        avail == SectionSize(rd.source, resourceStartOffset, entry.packedLength)
        list == readBlockList(entry.content, avail)
    IN  IF list.err # "nil"
        THEN [resource |-> [nil |-> TRUE], err |-> list.err]
        ELSE [resource |-> NewResource(TRUE, contentType, compressed, Len(list.blockList),
                              [entry |-> entryIndex, startOffset |-> resourceStartOffset,
                               packedLength |-> entry.packedLength,
                               unpackedLength |-> entry.unpackedLength,
                               validStream |-> entry.content.validStream,
                               rawSize |-> Max(0, avail - list.firstBlockOffset),
                               decompressedSize |-> entry.content.decompressedSize,
                               firstBlockOffset |-> list.firstBlockOffset,
                               blockList |-> list.blockList]),
              err |-> "nil"]

\* Reader.newSingleBlockResourceReader
newSingleBlockResourceReader(rd, entryIndex, contentType, compressed, resourceStartOffset) ==
    LET entry == rd.directory[entryIndex]
    IN  [resource |-> NewResource(FALSE, contentType, compressed, 1,
                          [entry |-> entryIndex, startOffset |-> resourceStartOffset,
                           packedLength |-> entry.packedLength,
                           unpackedLength |-> entry.unpackedLength,
                           validStream |-> entry.content.validStream,
                           rawSize |-> SectionSize(rd.source, resourceStartOffset,
                                                   entry.packedLength),
                           decompressedSize |-> entry.content.decompressedSize,
                           firstBlockOffset |-> 0, blockList |-> <<>>]),
         err |-> "nil"]

\* The nil io.Reader a failing Block returns.
NoBlock == [nil |-> TRUE]

\* The io.SectionReader over [off, off+size) of the (decompressed) payload that
\* blockFunc returns for a block: count is the number of bytes it yields, those
\* of the range the payload has (none when the range starts before the payload).
blockSectionReader(res, index) ==
    LET entry == res.blockList[index + 1]
        off == entry.start - res.firstBlockOffset
        payloadSize == IF res.Compressed THEN res.decompressedSize ELSE res.rawSize
    IN  [nil |-> FALSE, decompressed |-> res.Compressed, off |-> off, size |-> entry.size,
         count |-> IF off < 0 THEN 0 ELSE Min(entry.size, Max(0, payloadSize - off))]

\* Mutant: the payload is decompressed before the index is checked.
compoundBlockEager(res, index) ==
    IF res.Compressed /\ ~res.uncompressed /\ ~res.validStream
    THEN [reader |-> NoBlock, err |-> "decompressFailed", ran |-> 1,
          resource |-> [res EXCEPT !.decompressors = @ + 1]]
    ELSE LET ran == IF res.Compressed /\ ~res.uncompressed THEN 1 ELSE 0
             after == [res EXCEPT !.uncompressed = TRUE, !.decompressors = @ + ran]
         IN  IF (index < 0) \/ (index >= res.blockCount)
             THEN [reader |-> NoBlock, err |-> "blockIndexWrong", ran |-> ran, resource |-> after]
             ELSE [reader |-> blockSectionReader(res, index),
                   err |-> "nil", ran |-> ran, resource |-> after]

\* Mutant: the decompressed payload is not kept.
compoundBlockForgetful(res, index) ==
    IF (index < 0) \/ (index >= res.blockCount)
    THEN [reader |-> NoBlock, err |-> "blockIndexWrong", ran |-> 0, resource |-> res]
    ELSE IF res.Compressed /\ ~res.validStream
    THEN [reader |-> NoBlock, err |-> "decompressFailed", ran |-> 1,
          resource |-> [res EXCEPT !.decompressors = @ + 1]]
    ELSE [reader |-> blockSectionReader(res, index),
          err |-> "nil", ran |-> IF res.Compressed THEN 1 ELSE 0,
          resource |-> [res EXCEPT !.uncompressed = TRUE,
                                   !.decompressors = @ + IF res.Compressed THEN 1 ELSE 0]]

\* blockFunc of newCompoundResourceReader: the reader over the block's range of
\* the (decompressed) payload, the error, the resource afterwards, and in ran the
\* number of times the payload was decompressed.
compoundBlock(res, index) ==
    IF (index < 0) \/ (index >= res.blockCount)
    THEN [reader |-> NoBlock, err |-> "blockIndexWrong", ran |-> 0, resource |-> res]
    ELSE IF res.Compressed /\ ~res.uncompressed /\ ~res.validStream
    THEN [reader |-> NoBlock, err |-> "decompressFailed", ran |-> 1,
          resource |-> [res EXCEPT !.decompressors = @ + 1]]
    ELSE LET ran == IF res.Compressed /\ ~res.uncompressed THEN 1 ELSE 0
         IN  [reader |-> blockSectionReader(res, index),
              err |-> "nil", ran |-> ran,
              resource |-> [res EXCEPT !.uncompressed = TRUE, !.decompressors = @ + ran]]

\* blockFunc of newSingleBlockResourceReader: a reader limited to the resource's
\* size over the window, through a new decompressor if compressed (ran counts
\* it: the stream is decompressed as the caller reads).
singleBlock(res, index) ==
    IF index # 0
    THEN [reader |-> NoBlock, err |-> "blockIndexWrong", ran |-> 0, resource |-> res]
    ELSE [reader |-> [nil |-> FALSE, decompressed |-> res.Compressed, off |-> 0,
                      size |-> IF res.Compressed THEN res.unpackedLength ELSE res.packedLength],
          err |-> "nil", ran |-> IF res.Compressed THEN 1 ELSE 0,
          resource |-> [res EXCEPT !.decompressors = @ + IF res.Compressed THEN 1 ELSE 0]]

\* resource.Block(index): the blockFunc the resource was built with.
resourceBlock(res, index) ==
    IF res.Compound THEN compoundBlock(res, index) ELSE singleBlock(res, index)

\* resource.BlockCount()
resourceBlockCount(res) == res.blockCount

\* The cache with id mapped to the resource at address.
CachePut(cache, id, address) ==
    [i \in DOMAIN cache \cup {id} |-> IF i = id THEN address ELSE cache[i]]

\* What Resource does past the cache: find the entry, build the resource and,
\* on success, cache it.
decodeResource(rd, all, id) ==
    LET f == findEntry(rd, id)
        entry == rd.directory[f.entry]
        compressed == HasFlag(entry.resourceType, resourceTypeFlagCompressed)
        compound == HasFlag(entry.resourceType, resourceTypeFlagCompound)
        made == IF compound
                THEN newCompoundResourceReader(rd, f.entry, entry.contentType, compressed, f.startOffset)
                ELSE newSingleBlockResourceReader(rd, f.entry, entry.contentType, compressed, f.startOffset)
    IN  IF f.entry = 0
        THEN [retrieved |-> 0, err |-> "ErrResourceDoesNotExist", decoded |-> TRUE,
              cache |-> rd.cache, resources |-> all]
        ELSE IF made.err = "nil"
        THEN [retrieved |-> Len(all) + 1, err |-> "nil", decoded |-> TRUE,
              cache |-> CachePut(rd.cache, id, Len(all) + 1),
              resources |-> Append(all, made.resource)]
        ELSE [retrieved |-> 0, err |-> made.err, decoded |-> TRUE,
              cache |-> rd.cache, resources |-> all]

\* Mutant: the cache is not consulted.
readerResourceUncached(rd, all, id) == decodeResource(rd, all, id)

\* Mutant: a failed decode is cached as well.
readerResourceCachingFailures(rd, all, id) ==
    IF id \in DOMAIN rd.cache
    THEN [retrieved |-> rd.cache[id], err |-> "nil", decoded |-> FALSE,
          cache |-> rd.cache, resources |-> all]
    ELSE LET r == decodeResource(rd, all, id)
         IN  IF r.err = "EOF" THEN [r EXCEPT !.cache = CachePut(rd.cache, id, 0)] ELSE r

\* Reader.Resource(id) with all the resources created so far: the resource's
\* address and the error, the cache and the resources afterwards, and whether
\* the call went past the cache.
readerResource(rd, all, id) ==
    IF id \in DOMAIN rd.cache
    THEN [retrieved |-> rd.cache[id], err |-> "nil", decoded |-> FALSE,
          cache |-> rd.cache, resources |-> all]
    ELSE decodeResource(rd, all, id)

\* ------------------------------------------------------ idle values
NoCall == [called |-> FALSE, id |-> 0, retrieved |-> 0, err |-> "nil", decoded |-> FALSE]

NoBlockCall == [called |-> FALSE, resource |-> 0, index |-> 0, reader |-> NoBlock,
                err |-> "nil", ran |-> 0]

NoFound == [called |-> FALSE, id |-> 0, startOffset |-> 0, entry |-> 0]

IdleMerge == layers = <<>> /\ merged = NoMerged

IdleReader ==
    /\ source = NoSource
    /\ reader = NilReader
    /\ readerErr = "nil"
    /\ reads = <<>>
    /\ resources = <<>>
    /\ decodes = <<>>
    /\ lastCall = NoCall
    /\ lastBlock = NoBlockCall

IdleFind == found = NoFound

IdleWrite ==
    /\ provider = [ids |-> <<>>, res |-> <<>>]
    /\ target = "none"
    /\ wpc = "idle"
    /\ widx = 0
    /\ wlog = <<>>
    /\ werr = "nil"

\* ------------------------------------------------------------ SpecFind
DirectoryIDs == {1, 2}

\* The ids asked for: those of the directories and one that none holds.
QueryIDs == {1, 2, 3}

PackedLengths == {0, 3, 4, 5}

FirstOffsets == {0, 2, 128, Uint32Modulus - 4}

FindEntries == {DirectoryEntry(id, 0, 1, len, len, NoContent) : id \in DirectoryIDs, len \in PackedLengths}

\* The source of a reader under SpecFind: findEntry does not read it.
FindSource == [given |-> TRUE, nil |-> FALSE]

InitFind ==
    /\ reader \in {NewReader(FindSource, first, dir) :
                      first \in FirstOffsets, dir \in SeqsUpTo(FindEntries, MaxFindDir)}
    /\ source = FindSource
    /\ readerErr = "nil"
    /\ reads = <<>>
    /\ resources = <<>>
    /\ decodes = <<>>
    /\ lastCall = NoCall
    /\ lastBlock = NoBlockCall
    /\ found = NoFound
    /\ IdleMerge /\ IdleWrite

\* A call of reader.findEntry(id).
FindEntryCall(id) ==
    /\ LET r == findEntry(reader, id)
       IN  found' = [called |-> TRUE, id |-> id, startOffset |-> r.startOffset, entry |-> r.entry]
    /\ UNCHANGED <<mergeVars, readerVars, writeVars>>

NextFind == \E id \in QueryIDs : FindEntryCall(id)

SpecFind == InitFind /\ [][NextFind]_vars

\* -------------------------------------------------- claims: findEntry
AlignUp(n) == ((n + boundarySize - 1) \div boundarySize) * boundarySize

RECURSIVE AlignedSum(_, _)
AlignedSum(directory, n) ==
    IF n = 0 THEN 0 ELSE AlignedSum(directory, n - 1) + AlignUp(directory[n].packedLength)

\* firstResourceOffset plus the aligned packed lengths of the entries before the
\* one found, as a number.
ExpectedStart == reader.firstResourceOffset + AlignedSum(reader.directory, found.entry - 1)

FoundAnEntry == found.called /\ found.entry # 0

\* C3 as stated: for every entry findEntry matches, and any firstResourceOffset,
\* the start offset is firstResourceOffset plus the sum of the preceding entries'
\* packedLength, each rounded up to the boundary.
C3_StartIsAlignedSum == FoundAnEntry => found.startOffset = ExpectedStart

\* C3 amended: when firstResourceOffset is a multiple of the boundary and that
\* sum fits a uint32, the start offset is the sum.
C3_StartIsAlignedSumIfAligned ==
    /\ FoundAnEntry
    /\ reader.firstResourceOffset % boundarySize = 0
    /\ ExpectedStart < Uint32Modulus
    => found.startOffset = ExpectedStart

\* An entry behind two others, one of them with a length that needs padding.
C3_Witness ==
    /\ FoundAnEntry
    /\ found.entry = 3
    /\ reader.firstResourceOffset = 128
    /\ reader.directory[1].packedLength = 5
    /\ found.startOffset = 128 + 8 + AlignUp(reader.directory[2].packedLength)

\* ---------------------------------------------------------------- Spec
\* The contents of a compound resource's window.
Table(blockCount, firstBlockOffset, ends, validStream, decompressedSize) ==
    [blockCount |-> blockCount, firstBlockOffset |-> firstBlockOffset, ends |-> ends,
     validStream |-> validStream, decompressedSize |-> decompressedSize]

\* The directory entries of the sources: a simple resource, plain and
\* compressed; a compound one of two blocks; a compressed compound one of three
\* blocks; one whose payload the decompressor rejects; one whose window ends
\* within the block table; one without blocks.
EntriesOf(id) ==
    {DirectoryEntry(id, 0, 1, 3, 3, NoContent),
     DirectoryEntry(id, resourceTypeFlagCompressed, 2, 3, 2, NoContent),
     DirectoryEntry(id, resourceTypeFlagCompound, 3, 21, 21, Table(2, 14, <<18, 21>>, TRUE, 0)),
     DirectoryEntry(id, resourceTypeFlagCompound + resourceTypeFlagCompressed, 4, 22, 25,
                    Table(3, 18, <<20, 24, 25>>, TRUE, 7)),
     DirectoryEntry(id, resourceTypeFlagCompound + resourceTypeFlagCompressed, 5, 13, 12,
                    Table(1, 10, <<12>>, FALSE, 0)),
     DirectoryEntry(id, resourceTypeFlagCompound, 6, 4, 4, Table(2, 14, <<18, 21>>, TRUE, 0)),
     DirectoryEntry(id, resourceTypeFlagCompound, 7, 6, 6, Table(0, 6, <<>>, TRUE, 0))}

Entries == UNION {EntriesOf(id) : id \in DirectoryIDs}

Directories == SeqsUpTo(Entries, MaxDirectory)

FileHeaderSize == resourceDirectoryFileOffsetPos + dirOffsetSize

\* The resources' windows, each padded to the boundary, end here.
DataEnd(directory) == FileHeaderSize + AlignedSum(directory, Len(directory))

\* A well-formed archive of the directory: the header, the resources, the
\* directory.
Archive(directory) ==
    Source(DataEnd(directory) + dirHeaderSize + dirEntrySize * Len(directory),
           headerString, commentTerminator, DataEnd(directory), FileHeaderSize, directory)

\* The archive damaged: another header string, no terminator, cut short at
\* several places, the directory offset beyond the end.
Damaged(a) ==
    {[a EXCEPT !.magic = "LG Res FilA v2"],
     [a EXCEPT !.terminator = 0],
     [a EXCEPT !.magic = "LG Res FilA v2", !.size = 0],
     [a EXCEPT !.dirOffset = Uint32Modulus - 1]}
    \cup {[a EXCEPT !.size = n] :
            n \in {0, resourceDirectoryFileOffsetPos + 2, a.dirOffset - 1, a.dirOffset + 3,
                   a.size - 1}}

Sources ==
    {NilSource}
    \cup {Archive(d) : d \in Directories}
    \cup UNION {Damaged(Archive(d)) : d \in SeqsUpTo(Entries, 1)}

Init ==
    /\ source = NoSource
    /\ reader = NilReader
    /\ readerErr = "nil"
    /\ reads = <<>>
    /\ resources = <<>>
    /\ decodes = [id \in QueryIDs |-> 0]
    /\ lastCall = NoCall
    /\ lastBlock = NoBlockCall
    /\ IdleMerge /\ IdleFind /\ IdleWrite

\* ReaderFrom(src)
ReaderFromCall(src) ==
    /\ ~source.given
    /\ source' = src
    /\ LET r == ReaderFrom(src)
       IN  reader' = r.reader /\ readerErr' = r.err /\ reads' = r.reads
    /\ UNCHANGED <<resources, decodes, lastCall, lastBlock, mergeVars, findVars, writeVars>>

\* reader.Resource(id)
ResourceCall(id) ==
    /\ ~reader.nil
    /\ decodes[id] < MaxDecodes
    /\ LET r == readerResource(reader, resources, id)
       IN  /\ reader' = [reader EXCEPT !.cache = r.cache]
           /\ resources' = r.resources
           /\ decodes' = [decodes EXCEPT ![id] = IF r.decoded THEN @ + 1 ELSE @]
           /\ lastCall' = [called |-> TRUE, id |-> id, retrieved |-> r.retrieved,
                           err |-> r.err, decoded |-> r.decoded]
    /\ UNCHANGED <<source, readerErr, reads, lastBlock, mergeVars, findVars, writeVars>>

\* Block(index) on the resource at address.
BlockCall(address, index) ==
    /\ resources[address].decompressors < MaxDecompressors
    /\ LET r == resourceBlock(resources[address], index)
       IN  /\ resources' = [resources EXCEPT ![address] = r.resource]
           /\ lastBlock' = [called |-> TRUE, resource |-> address, index |-> index,
                            reader |-> r.reader, err |-> r.err, ran |-> r.ran]
    /\ UNCHANGED <<source, reader, readerErr, reads, decodes, lastCall, mergeVars, findVars,
                   writeVars>>

Next ==
    \/ \E src \in Sources : ReaderFromCall(src)
    \/ \E id \in QueryIDs : ResourceCall(id)

Spec == Init /\ [][Next]_vars

\* ----------------------------------------------------------- SpecBlock
\* The archives whose resources' blocks are read: one resource, or one of each id.
BlockSources ==
    {Archive(<<e>>) : e \in Entries}
    \cup {Archive(<<e1, e2>>) : e1 \in EntriesOf(1), e2 \in EntriesOf(2)}

NextBlock ==
    \/ \E src \in BlockSources : ReaderFromCall(src)
    \/ \E id \in QueryIDs : ResourceCall(id)
    \/ \E address \in 1..Len(resources) :
          \E index \in -1..resourceBlockCount(resources[address]) : BlockCall(address, index)

SpecBlock == Init /\ [][NextBlock]_vars

\* -------------------------------------------------- claims: Resource
\* The step is a Resource call (each one changes lastCall or counts a decode).
ResourceStep == lastCall' # lastCall \/ decodes' # decodes

\* C4: every successful Resource(id) returns the instance in the cache, which is
\* the one the first successful call for the id created: a cache entry, once
\* inserted, is never replaced or removed, and no resource created is replaced.
C4_SameInstance ==
    [][~reader.nil =>
        /\ \A id \in DOMAIN reader.cache :
              id \in DOMAIN reader'.cache /\ reader'.cache[id] = reader.cache[id]
        /\ \A a \in 1..Len(resources) :
              /\ a <= Len(resources')
              /\ resources'[a].entry = resources[a].entry
        /\ (ResourceStep /\ lastCall'.err = "nil" =>
              /\ lastCall'.retrieved \in 1..Len(resources')
              /\ lastCall'.id \in DOMAIN reader'.cache
              /\ reader'.cache[lastCall'.id] = lastCall'.retrieved
              /\ (lastCall'.id \in DOMAIN reader.cache => ~lastCall'.decoded))]_vars

\* A second resource was created, and then the first was returned again.
C4_Witness ==
    /\ lastCall.called /\ lastCall.err = "nil" /\ ~lastCall.decoded
    /\ Len(resources) = 2
    /\ lastCall.retrieved = 1

\* The ids no directory entry of the reader has.
UnknownID(id) == \A i \in 1..Len(reader.directory) : reader.directory[i].ID # id

\* C5: a failing Resource(id) returns a nil resource with an error and leaves the
\* cache as it was, without the id, so the call went past the cache and decoded
\* (as the next call with the id will); an id of no directory entry yields the
\* resource-does-not-exist error.
C5_FailuresAreNotCached ==
    [][~reader.nil /\ ResourceStep =>
        /\ (lastCall'.err # "nil" =>
              /\ lastCall'.retrieved = 0
              /\ reader'.cache = reader.cache
              /\ resources' = resources
              /\ lastCall'.id \notin DOMAIN reader'.cache
              /\ lastCall'.decoded
              /\ decodes'[lastCall'.id] = decodes[lastCall'.id] + 1)
        /\ (lastCall'.err = "nil" => lastCall'.retrieved # 0)
        /\ (UnknownID(lastCall'.id) => lastCall'.err = "ErrResourceDoesNotExist")
        /\ (lastCall.called /\ lastCall.err # "nil" /\ lastCall'.id = lastCall.id =>
              lastCall'.decoded /\ lastCall'.err = lastCall.err)]_vars

\* A resource whose block table is cut short was asked for twice, and decoded twice.
C5_Witness ==
    /\ lastCall.called /\ lastCall.err = "EOF" /\ lastCall.retrieved = 0
    /\ decodes[lastCall.id] = 2
    /\ DOMAIN reader.cache # {}

\* The first directory entry with the id (0 if there is none).
FirstEntry(directory, id) ==
    LET matches == {i \in 1..Len(directory) : directory[i].ID = id}
    IN  IF matches = {} THEN 0 ELSE CHOOSE i \in matches : \A k \in matches : i <= k

\* The resource is the one of directory entry i: its metadata and its window.
IsResourceOf(res, i) ==
    /\ res.entry = i
    /\ res.ContentType = reader.directory[i].contentType
    /\ res.Compressed = HasFlag(reader.directory[i].resourceType, resourceTypeFlagCompressed)
    /\ res.Compound = HasFlag(reader.directory[i].resourceType, resourceTypeFlagCompound)
    /\ res.packedLength = reader.directory[i].packedLength
    /\ res.startOffset = reader.firstResourceOffset + AlignedSum(reader.directory, i - 1)

\* C9: with several entries of one id in the directory, every successful
\* Resource(id), from the cache or not, is the resource of the first entry with
\* the id, and IDs() lists every entry's id in directory order.
C9_FirstEntryWins ==
    ~reader.nil =>
        /\ \A id \in DOMAIN reader.cache :
              IsResourceOf(resources[reader.cache[id]], FirstEntry(reader.directory, id))
        /\ (lastCall.called /\ lastCall.err = "nil" =>
              IsResourceOf(resources[lastCall.retrieved], FirstEntry(reader.directory, lastCall.id)))
        /\ (lastCall.called /\ lastCall.err = "ErrResourceDoesNotExist" =>
              FirstEntry(reader.directory, lastCall.id) = 0)
        /\ Len(readerIDs(reader)) = Len(source.directory)
        /\ \A i \in 1..Len(source.directory) : readerIDs(reader)[i] = source.directory[i].ID

\* Two different entries of one id, and the id's resource came from the cache.
C9_Witness ==
    /\ ~reader.nil
    /\ Len(reader.directory) = 2
    /\ reader.directory[1].ID = reader.directory[2].ID
    /\ reader.directory[1].contentType # reader.directory[2].contentType
    /\ lastCall.called /\ lastCall.err = "nil" /\ ~lastCall.decoded
    /\ readerIDs(reader) = <<lastCall.id, lastCall.id>>

\* ------------------------------------------------ claims: ReaderFrom
\* The source does not start with the header string and the terminator.
HeaderMismatch == source.size < resourceDirectoryFileOffsetPos
                  \/ source.magic # headerString \/ source.terminator # commentTerminator

\* The directory offset points outside the source, or the directory is cut short.
DirectoryCutShort ==
    source.dirOffset + dirHeaderSize + dirEntrySize * Len(source.directory) > source.size

\* C6: ReaderFrom returns a reader and no error, or no reader and an error. A nil
\* source yields errSourceNil before any read, a mismatch of the header string or
\* the terminator errFormatMismatch, a directory offset outside the source or a
\* directory cut short an error.
C6_ReaderFromIsAtomic ==
    source.given =>
        /\ reader.nil <=> readerErr # "nil"
        /\ (source.nil => readerErr = errSourceNil /\ reads = <<>>)
        /\ (~source.nil /\ HeaderMismatch => readerErr = errFormatMismatch)
        /\ (~source.nil /\ DirectoryCutShort => reader.nil /\ readerErr # "nil")
        /\ (~reader.nil => reader.cache = <<>> \/ lastCall.called)

\* A good header, and a directory that loses its last bytes.
C6_Witness ==
    /\ source.given /\ ~source.nil
    /\ ~HeaderMismatch
    /\ source.dirOffset + dirHeaderSize <= source.size
    /\ DirectoryCutShort
    /\ reader.nil /\ readerErr = "EOF"

\* ----------------------------------------------------- claims: Block
CompressedCompound(res) == res.Compound /\ res.Compressed

\* The step is a Block call on the resource at address a.
BlockStepOn(a) ==
    /\ lastBlock' # lastBlock \/ (Len(resources') = Len(resources) /\ resources' # resources)
    /\ lastBlock'.resource = a

\* C8 as stated: over any sequence of Block calls, failing ones too, a compressed
\* compound resource decompresses its payload at most once.
C8_DecompressedAtMostOnce ==
    \A a \in 1..Len(resources) :
        CompressedCompound(resources[a]) => resources[a].decompressors <= 1

\* C8 amended: the payload is decompressed by in-range Block calls only and as
\* long as no decompression has succeeded; the first one that succeeds is kept,
\* and from then on no Block call decompresses or changes the resource.
C8_DecompressedOnceSuccessfully ==
    [][\A a \in 1..Len(resources) :
          CompressedCompound(resources[a]) =>
              /\ (resources[a].uncompressed => resources'[a] = resources[a])
              /\ (resources[a].uncompressed /\ BlockStepOn(a) => lastBlock'.ran = 0)
              /\ (resources'[a].decompressors # resources[a].decompressors =>
                    /\ BlockStepOn(a)
                    /\ lastBlock'.index \in 0..(resources[a].blockCount - 1)
                    /\ lastBlock'.ran = 1
                    /\ resources'[a].decompressors = resources[a].decompressors + 1
                    /\ resources'[a].uncompressed = (lastBlock'.err = "nil"))
              /\ (resources'[a].uncompressed # resources[a].uncompressed =>
                    resources'[a].decompressors = resources[a].decompressors + 1)
              /\ (BlockStepOn(a) /\ lastBlock'.err = "nil" => resources'[a].uncompressed)
              /\ (~resources'[a].uncompressed /\ resources'[a].validStream =>
                    resources'[a].decompressors = 0)]_vars

\* Created by Resource, a compressed compound resource has decompressed nothing.
C8_Witness ==
    /\ lastBlock.called /\ lastBlock.err = "nil" /\ lastBlock.ran = 0
    /\ lastBlock.index = 2
    /\ CompressedCompound(resources[lastBlock.resource])
    /\ resources[lastBlock.resource].decompressors = 1

\* C10: Block(index) with index outside [0, BlockCount()) returns a nil reader and
\* an error and creates no decompressor; a simple resource has a BlockCount() of 1
\* and accepts index 0 alone.
C10_IndexOutOfRange ==
    /\ \A a \in 1..Len(resources) :
          ~resources[a].Compound => resourceBlockCount(resources[a]) = 1
    /\ lastBlock.called =>
          LET res == resources[lastBlock.resource]
              outside == lastBlock.index < 0 \/ lastBlock.index >= resourceBlockCount(res)
          IN  /\ outside => lastBlock.reader.nil /\ lastBlock.err # "nil" /\ lastBlock.ran = 0
              /\ ~res.Compound => (lastBlock.err = "nil" <=> lastBlock.index = 0)
              /\ lastBlock.reader.nil <=> lastBlock.err # "nil"

\* An index past the blocks of a compressed compound resource that has not
\* decompressed its payload.
C10_Witness ==
    /\ lastBlock.called
    /\ lastBlock.index = 3
    /\ CompressedCompound(resources[lastBlock.resource])
    /\ resources[lastBlock.resource].decompressors = 0
    /\ lastBlock.err = "blockIndexWrong"

\* An index other than 0 on a compressed simple resource.
C10_WitnessSimple ==
    /\ lastBlock.called
    /\ lastBlock.index = 1
    /\ ~resources[lastBlock.resource].Compound
    /\ resources[lastBlock.resource].Compressed
    /\ lastBlock.err = "blockIndexWrong"

\* ----------------------------------------------------------- SpecTable
\* Block tables as stored: up to MaxTableBlocks cumulative end offsets, each at
\* one of these distances from firstBlockOffset (one before it), in any order.
EndDistances == {0 - 2, 0, 3, 6, 8}

\* The payload's sizes: the bytes of the window past firstBlockOffset, the bytes
\* the decompressor yields.
PayloadSizes == {4, 6}

TableSize(blockCount) == 2 + 4 + 4 * blockCount

\* Compound entries, plain and compressed, the payload right after the table or
\* two bytes further.
TableEntries ==
    {DirectoryEntry(1, resourceTypeFlagCompound + flag, 3, first + size, first + size,
                    Table(n, first, [i \in 1..n |-> first + distances[i]], TRUE, size)) :
        <<n, distances, first, flag, size>> \in
            UNION {{<<n, d, TableSize(n) + gap, flag, size>> :
                        d \in [1..n -> EndDistances], gap \in {0, 2},
                        flag \in {0, resourceTypeFlagCompressed}, size \in PayloadSizes} :
                   n \in 0..MaxTableBlocks}}

TableSources == {Archive(<<e>>) : e \in TableEntries}

NextTable ==
    \/ \E src \in TableSources : ReaderFromCall(src)
    \/ \E id \in DirectoryIDs : ResourceCall(id)
    \/ \E address \in 1..Len(resources) :
          \E index \in 0..resourceBlockCount(resources[address]) : BlockCall(address, index)

SpecTable == Init /\ [][NextTable]_vars

\* ----------------------------------------------- claims: block table
\* The stored table of the directory entry a resource was made of.
StoredTable(res) == reader.directory[res.entry].content

\* The cumulative end offset before block i (counted from 0).
PreviousEnd(table, i) == IF i = 0 THEN table.firstBlockOffset ELSE table.ends[i]

\* The stored end offsets never decrease and none is below firstBlockOffset.
WellOrdered(table) ==
    \A i \in 0..(table.blockCount - 1) : PreviousEnd(table, i) <= table.ends[i + 1]

\* The size of the payload Block slices: the window past firstBlockOffset, or
\* what the decompressor makes of it.
PayloadSize(res) ==
    IF res.Compressed
    THEN StoredTable(res).decompressedSize
    ELSE Max(0, reader.directory[res.entry].packedLength - StoredTable(res).firstBlockOffset)

\* C11: for a compound resource whose stored end offsets never decrease and are
\* not below firstBlockOffset, block 0 starts at payload offset 0, block i+1
\* starts where block i ends, block i is as long as its end offset is past the
\* previous one, and a successful Block(i) returns a reader over exactly that
\* range of the (decompressed, if compressed) payload: it yields the payload's
\* bytes in the range, all size of them when the range lies within the payload.
C11_BlocksTileThePayload ==
    /\ \A a \in 1..Len(resources) :
          LET res == resources[a]
              table == StoredTable(res)
          IN  res.Compound /\ WellOrdered(table) =>
                /\ Len(res.blockList) = table.blockCount
                /\ \A i \in 0..(table.blockCount - 1) :
                      /\ res.blockList[i + 1].start - res.firstBlockOffset
                            = PreviousEnd(table, i) - table.firstBlockOffset
                      /\ res.blockList[i + 1].size = table.ends[i + 1] - PreviousEnd(table, i)
                /\ (table.blockCount > 0 => res.blockList[1].start - res.firstBlockOffset = 0)
                /\ \A i \in 1..(table.blockCount - 1) :
                      res.blockList[i + 1].start = res.blockList[i].start + res.blockList[i].size
    /\ lastBlock.called /\ lastBlock.err = "nil" =>
          LET res == resources[lastBlock.resource]
              table == StoredTable(res)
              from == PreviousEnd(table, lastBlock.index) - table.firstBlockOffset
              to == table.ends[lastBlock.index + 1] - table.firstBlockOffset
          IN  res.Compound /\ WellOrdered(table) =>
                /\ lastBlock.reader.decompressed = res.Compressed
                /\ lastBlock.reader.off = from
                /\ lastBlock.reader.size = to - from
                /\ lastBlock.reader.count
                      = Cardinality({p \in 0..(PayloadSize(res) - 1) : from <= p /\ p < to})
                /\ (to <= PayloadSize(res) => lastBlock.reader.count = to - from)

\* Block 1 of a compressed resource with a well-ordered table of two blocks
\* within the payload: it starts where block 0 ends.
C11_Witness ==
    /\ lastBlock.called /\ lastBlock.err = "nil" /\ lastBlock.index = 1
    /\ LET res == resources[lastBlock.resource]
           table == StoredTable(res)
       IN  /\ res.Compound /\ res.Compressed /\ WellOrdered(table)
           /\ table.ends = <<table.firstBlockOffset + 3, table.firstBlockOffset + 6>>
           /\ table.decompressedSize = 6
           /\ lastBlock.reader.off = 3 /\ lastBlock.reader.size = 3
           /\ lastBlock.reader.count = 3

\* ----------------------------------------------------------- SpecWrite
\* A call Write makes on the writer: of the resource at position pos of
\* source.IDs() and, for a block, its index.
Event(op, pos, block) == [op |-> op, pos |-> pos, block |-> block]

\* The loop of copyBlocks from blockIndex on (0-based), after the calls in log:
\* Block(blockIndex), nextWriter(), io.Copy. A block of the provider is "ok" or
\* its Block fails; the target may fail the copy.
RECURSIVE copyBlocksFrom(_, _, _, _, _)
copyBlocksFrom(entry, pos, tgt, blockIndex, log) ==
    IF blockIndex >= Len(entry.blocks)
    THEN [log |-> log, err |-> "nil"]
    ELSE IF entry.blocks[blockIndex + 1] # "ok"
    THEN [log |-> log, err |-> "blockFailed"]
    ELSE LET next == IF entry.Compound
                     THEN log \o <<Event("CreateBlock", pos, blockIndex), Event("Copy", pos, blockIndex)>>
                     ELSE Append(log, Event("Copy", pos, blockIndex))
         IN  IF tgt = "Copy"
             THEN [log |-> next, err |-> "copyFailed"]
             ELSE copyBlocksFrom(entry, pos, tgt, blockIndex + 1, next)

\* copyBlocks(source, nextWriter)
copyBlocks(entry, pos, tgt, log) == copyBlocksFrom(entry, pos, tgt, 0, log)

\* Mutant: a simple resource is created before its block count is checked.
writeEntryCreateFirst(prov, tgt, pos, log) ==
    LET id == prov.ids[pos]
        entry == prov.res[id]
    IN  IF ~entry.found
        THEN [log |-> log, err |-> "ErrResourceDoesNotExist"]
        ELSE IF entry.Compound
        THEN IF tgt = "CreateCompoundResource"
             THEN [log |-> log, err |-> "createFailed"]
             ELSE copyBlocks(entry, pos, tgt, Append(log, Event("CreateCompoundResource", pos, 0)))
        ELSE IF tgt = "CreateResource"
        THEN [log |-> log, err |-> "createFailed"]
        ELSE IF Len(entry.blocks) = 1
        THEN copyBlocks(entry, pos, tgt, Append(log, Event("CreateResource", pos, 0)))
        ELSE [log |-> Append(log, Event("CreateResource", pos, 0)), err |-> "wrongBlockCount"]

\* The body of Write's loop for the id at position pos of source.IDs().
writeEntry(prov, tgt, pos, log) ==
    LET id == prov.ids[pos]
        entry == prov.res[id]
    IN  IF ~entry.found
        THEN [log |-> log, err |-> "ErrResourceDoesNotExist"]
        ELSE IF entry.Compound
        THEN IF tgt = "CreateCompoundResource"
             THEN [log |-> log, err |-> "createFailed"]
             ELSE copyBlocks(entry, pos, tgt, Append(log, Event("CreateCompoundResource", pos, 0)))
        ELSE IF Len(entry.blocks) = 1
        THEN IF tgt = "CreateResource"
             THEN [log |-> log, err |-> "createFailed"]
             ELSE copyBlocks(entry, pos, tgt, Append(log, Event("CreateResource", pos, 0)))
        ELSE [log |-> log, err |-> "wrongBlockCount"]

\* What source.Resource(id) returns: an error, or a resource that is compound or
\* not and whose blocks can be read or not.
ProviderResources ==
    {[found |-> FALSE, Compound |-> FALSE, blocks |-> <<>>]}
    \cup {[found |-> TRUE, Compound |-> c, blocks |-> b] :
            c \in BOOLEAN, b \in SeqsUpTo({"ok", "fail"}, MaxProviderBlocks)}

Providers ==
    {[ids |-> ids, res |-> res] :
        ids \in SeqsUpTo(DirectoryIDs, MaxProviderIDs), res \in [DirectoryIDs -> ProviderResources]}

\* The call on the target's writer that fails, if any.
Targets == {"none", "NewWriter", "CreateResource", "CreateCompoundResource", "Copy", "Finish"}

InitWrite ==
    /\ provider \in Providers
    /\ target \in Targets
    /\ wpc = "idle"
    /\ widx = 0
    /\ wlog = <<>>
    /\ werr = "nil"
    /\ IdleMerge /\ IdleReader /\ IdleFind

\* Write is called: NewWriter(target).
WriteNewWriter ==
    /\ wpc = "idle"
    /\ IF target = "NewWriter"
       THEN wpc' = "done" /\ werr' = "writerFailed" /\ widx' = widx
       ELSE wpc' = "loop" /\ werr' = "nil" /\ widx' = 1
    /\ UNCHANGED <<provider, target, wlog, mergeVars, readerVars, findVars>>

\* One round of the loop over source.IDs().
WriteEntry ==
    /\ wpc = "loop"
    /\ widx <= Len(provider.ids)
    /\ LET r == writeEntry(provider, target, widx, wlog)
       IN  /\ wlog' = r.log
           /\ werr' = r.err
           /\ IF r.err # "nil"
              THEN wpc' = "done" /\ widx' = widx
              ELSE wpc' = "loop" /\ widx' = widx + 1
    /\ UNCHANGED <<provider, target, mergeVars, readerVars, findVars>>

\* After the loop: writer.Finish().
WriteFinish ==
    /\ wpc = "loop"
    /\ widx > Len(provider.ids)
    /\ wlog' = Append(wlog, Event("Finish", 0, 0))
    /\ werr' = IF target = "Finish" THEN "finishFailed" ELSE "nil"
    /\ wpc' = "done"
    /\ UNCHANGED <<provider, target, widx, mergeVars, readerVars, findVars>>

NextWrite == WriteNewWriter \/ WriteEntry \/ WriteFinish

SpecWrite == InitWrite /\ [][NextWrite]_vars

\* ----------------------------------------------------- claims: Write
\* The resource Write looks up at position k of source.IDs().
EntryAt(k) == provider.res[provider.ids[k]]

\* It is a simple resource with a block count other than 1.
WrongShape(k) == EntryAt(k).found /\ ~EntryAt(k).Compound /\ Len(EntryAt(k).blocks) # 1

\* The loop has run its round for position k.
RoundDone(k) == (wpc = "loop" /\ widx > k) \/ (wpc = "done" /\ widx >= k /\ widx >= 1)

Finished == \E i \in 1..Len(wlog) : wlog[i].op = "Finish"

\* The calls made for position k.
EventsAt(k) == SelectSeq(wlog, LAMBDA e : e.pos = k)

\* The calls a resource needs: its creation, then each block copied in order.
RECURSIVE CopiesOf(_, _, _)
CopiesOf(entry, k, n) ==
    IF n = 0
    THEN <<Event(IF entry.Compound THEN "CreateCompoundResource" ELSE "CreateResource", k, 0)>>
    ELSE CopiesOf(entry, k, n - 1)
         \o (IF entry.Compound THEN <<Event("CreateBlock", k, n - 1)>> ELSE <<>>)
         \o <<Event("Copy", k, n - 1)>>

\* C7: Write walks the ids in order; at a simple resource with a block count
\* other than 1 it returns an error with no call made on the writer for that
\* resource and no Finish; Finish is called only after every resource was looked
\* up, created and copied without error, and an error means no Finish was called
\* or Finish failed.
C7_WrongShapeIsRejected ==
    /\ \A k \in 1..Len(provider.ids) :
          RoundDone(k) /\ WrongShape(k) =>
              /\ wpc = "done" /\ widx = k
              /\ werr = "wrongBlockCount"
              /\ EventsAt(k) = <<>>
              /\ \A i \in 1..Len(wlog) : provider.ids[wlog[i].pos] # provider.ids[k]
              /\ ~Finished
    /\ \A k \in 1..Len(provider.ids) :
          RoundDone(k) /\ (wpc = "loop" \/ widx > k \/ werr = "nil") =>
              /\ EntryAt(k).found /\ ~WrongShape(k)
              /\ EventsAt(k) = CopiesOf(EntryAt(k), k, Len(EntryAt(k).blocks))
    /\ Finished =>
          /\ wpc = "done" /\ widx = Len(provider.ids) + 1
          /\ wlog[Len(wlog)].op = "Finish"
          /\ \A i \in 1..(Len(wlog) - 1) : wlog[i].op # "Finish"
          /\ \A k \in 1..Len(provider.ids) : RoundDone(k)
    /\ (wpc = "done" /\ ~Finished => werr # "nil")
    /\ (wpc = "done" /\ werr = "nil" => Finished)

\* The first resource was written, the second is a simple one of two blocks.
C7_Witness ==
    /\ wpc = "done" /\ widx = 2
    /\ Len(provider.ids) >= 2
    /\ WrongShape(2) /\ Len(EntryAt(2).blocks) = 2
    /\ werr = "wrongBlockCount"
    /\ Len(wlog) >= 2
    /\ target = "none"

\* ----------------------------------------------------------- SpecMerge
InitMerge ==
    /\ layers \in LayerStacks
    /\ merged = NoMerged
    /\ IdleReader /\ IdleFind /\ IdleWrite

\* A call of the merged view's Block(index).
MergedBlock(index) ==
    /\ LET r == mergerBlock(layers, index)
       IN  merged' = [called |-> TRUE, index |-> index, reader |-> r.reader,
                      err |-> r.err, layer |-> r.layer]
    /\ UNCHANGED <<layers, readerVars, findVars, writeVars>>

NextMerge == \E index \in -1..(mergerBlockCount(layers) + 1) : MergedBlock(index)

SpecMerge == InitMerge /\ [][NextMerge]_vars

\* -------------------------------------------------- claims: merge
\* The layers, highest first, that hold a block at index satisfying Good.
TopLayer(index, Good(_)) ==
    LET ok == {l \in 1..Len(layers) :
                  /\ LayerBlock(layers[l], index).err = "nil"
                  /\ Good(LayerBlock(layers[l], index).reader.data)}
    IN  IF ok = {} THEN 0 ELSE CHOOSE l \in ok : \A k \in ok : k <= l

NonZeroLeading(data) == Len(data) >= 1 /\ data[1] # 0

NonEmpty(data) == Len(data) >= 1

\* The merged Block returned the whole block of layer l, or nothing when l = 0.
MergedIsBlockOf(l) ==
    IF l = 0
    THEN ~merged.reader.open
    ELSE /\ merged.reader.open
         /\ merged.layer = l
         /\ merged.reader.pos = 0
         /\ Remaining(merged.reader) = layers[l][merged.index + 1].data

\* C1 as stated: merged Block(index) returns, from its first byte, the block of
\* the highest layer whose block at index has a non-zero leading byte, and is
\* absent when no layer has one.
C1_SentinelByteOverride == merged.called => MergedIsBlockOf(TopLayer(merged.index, NonZeroLeading))

\* C1 amended: merged Block(index) returns, freshly re-opened and from its first
\* byte, the block of the highest layer whose Block(index) succeeds and yields at
\* least one byte, whatever that byte is; layers that fail, lack the index or hold
\* an empty block are skipped, and the result is absent when none is left.
C1_NonEmptyOverride == merged.called => MergedIsBlockOf(TopLayer(merged.index, NonEmpty))

\* A lower layer's zero-leading block was returned after a higher layer was skipped.
C1_Witness ==
    /\ merged.called
    /\ merged.reader.open
    /\ merged.layer >= 1 /\ merged.layer < Len(layers)
    /\ merged.reader.data[1] = 0

\* C2: when no layer resolves the index (every layer's Block fails, lacks the
\* index or is empty) merged Block returns a nil reader with a nil error; a nil
\* reader never comes with an error.
C2_AbsentIsNotAnError ==
    merged.called =>
        /\ (~merged.reader.open => merged.err = "nil")
        /\ (TopLayer(merged.index, NonEmpty) = 0 => ~merged.reader.open /\ merged.err = "nil")

\* An in-range Block call of some layer failed and the merged result is absent.
C2_Witness ==
    /\ merged.called
    /\ ~merged.reader.open
    /\ \E l \in 1..Len(layers) : LayerBlock(layers[l], merged.index).err = "blockFailed"
    /\ \E l \in 1..Len(layers) : LayerBlock(layers[l], merged.index).err = "blockIndexWrong"

====
